---- MODULE Spec2Model ----
(***************************************************************************)
(* bittrex_bot.py: a single linear script.  One run parses its arguments,  *)
(* validates the market, fetches balances and the order book, derives a    *)
(* price, places a sell limit order, polls the order until it is closed or *)
(* the warn threshold is exceeded, and publishes one notification.         *)
(*                                                                         *)
(* Each action is the stretch of the script from one external call to the  *)
(* next: the call, the handling of its response, and every local step up   *)
(* to the following call (or to the raise / exit that ends the run).       *)
(* time.sleep is the one call that takes time: entering the wait and       *)
(* coming back from it are two steps.                                      *)
(*                                                                         *)
(* Numbers.  The script computes with Decimal and prints through float.    *)
(* Neither fits a machine integer, so both are computed digit by digit: a  *)
(* Decimal is the record [coef, exp] of value coef / 10^exp, a float the   *)
(* record [m, k] of value m / 2^(k+52), coef and m naturals of any size    *)
(* (see Exact arithmetic).  The result of every Decimal operation is       *)
(* rounded to 28 significant digits, as the default context does.          *)
(* The exchange quotes a Rate in whole satoshis (1e-8).  The client hands  *)
(* it over as a JSON number, which reaches the script as a float, or       *)
(* exactly (a string or a Decimal); Decimal(float) is the float's exact    *)
(* binary value, which is not the decimal that was quoted.  amount is      *)
(* typed in tenths of a coin and parsed by float().                        *)
(*                                                                         *)
(* An optional Python value (None or v) is the sequence <<>> or <<v>>.     *)
(***************************************************************************)
EXTENDS Integers, Sequences, FiniteSets

VARIABLES
    pc,              \* position of the script
    argv_side,       \* args.order_side as typed (sequence of characters)
    order_side,      \* args.order_side.lower()
    amount,          \* args.amount: the float of the text typed, in tenths
    market_currency, \* args.market_currency
    base_currency,   \* args.base_currency
    warn_after,      \* args.warn_after
    min_trade_size,  \* None or the value found by the lookup loop
    order_book,      \* None or the result of get_orderbook, as delivered
    buy_rate,        \* None or Decimal(best bid)
    sell_rate,       \* None or Decimal(best ask)
    market_rate,     \* None or the derived price, a Decimal
    placed,          \* arguments of each sell_limit call made
    resp,            \* None or the response to sell_limit
    order_uuid,      \* None or the order's identifier
    order_closed,    \* None or order_resp['result']['Closed']
    statuses,        \* history: the Closed flag of every status check that returned
    total_wait_time, \* cumulative sleep
    calls,           \* history: every external call made, in order
    published,       \* every notification published (sns.publish returned)
    error            \* "" or the kind of the exception that ended the run

vars == <<pc, argv_side, order_side, amount, market_currency, base_currency,
          warn_after, min_trade_size, order_book, buy_rate, sell_rate,
          market_rate, placed, resp, order_uuid, order_closed, statuses,
          total_wait_time, calls, published, error>>

(***************************************************************************)
(* Bounds of the inputs.                                                   *)
(***************************************************************************)
MaxAmount == 1
MaxMinTradeSize == 1
MaxMarkets == 2
MaxRateIdx == 2
MaxWarnIntervals == 1

(***************************************************************************)
(* Pure helpers.                                                           *)
(***************************************************************************)
LowerChar(c) ==
    CASE c = "A" -> "a" [] c = "B" -> "b" [] c = "C" -> "c" [] c = "D" -> "d"
      [] c = "E" -> "e" [] c = "F" -> "f" [] c = "G" -> "g" [] c = "H" -> "h"
      [] c = "I" -> "i" [] c = "J" -> "j" [] c = "K" -> "k" [] c = "L" -> "l"
      [] c = "M" -> "m" [] c = "N" -> "n" [] c = "O" -> "o" [] c = "P" -> "p"
      [] c = "Q" -> "q" [] c = "R" -> "r" [] c = "S" -> "s" [] c = "T" -> "t"
      [] c = "U" -> "u" [] c = "V" -> "v" [] c = "W" -> "w" [] c = "X" -> "x"
      [] c = "Y" -> "y" [] c = "Z" -> "z"
      [] OTHER -> c

\* str.lower()
Lower(s) == [i \in 1..Len(s) |-> LowerChar(s[i])]

\* order_side not in ['buy', 'sell']
InvalidSide(side) == side \notin { <<"b","u","y">>, <<"s","e","l","l">> }

\* market['MarketCurrency'] == market_currency and market['BaseCurrency'] == base_currency
EntryMatches(market, mc, bc) ==
    market.MarketCurrency = mc /\ market.BaseCurrency = bc

\* the lookup loop: the first matching entry's MinTradeSize, else None
RECURSIVE FindMinTradeSize(_, _, _)
FindMinTradeSize(markets, mc, bc) ==
    IF markets = <<>> THEN <<>>
    ELSE IF EntryMatches(Head(markets), mc, bc)
         THEN <<Head(markets).MinTradeSize>>
         ELSE FindMinTradeSize(Tail(markets), mc, bc)

\* `not min_trade_size`: Python truthiness, None and 0 are both falsy
NotFound(mts) == mts = <<>> \/ mts[1] = 0

\* amount < min_trade_size: the float of a tenths of a coin against a whole
\* number (float() is monotone and a whole number is its own float)
BelowMinTradeSize(amt, mts) == amt < 10 * mts[1]

(***************************************************************************)
(* Exact arithmetic.  A Decimal with up to 28 significant digits and the   *)
(* 53-bit mantissa of a float do not fit a machine integer.  A natural of  *)
(* any size is the sequence of its digits to the base 10^4, least          *)
(* significant first, without a leading zero digit (0 is <<>>).  A Decimal *)
(* is the record [coef, exp] of value coef / 10^exp, a float the record    *)
(* [m, k] of value m / 2^(k+52).  Every number the script computes with is  *)
(* zero or positive, but for the difference sell_rate - buy_rate.          *)
(***************************************************************************)
\* F(x), with x evaluated first and once, as Python evaluates an operand
With(x, F(_)) == CHOOSE r \in { F(v) : v \in {x} } : TRUE

RECURSIVE Norm(_)
Norm(x) ==
    IF x # <<>> /\ x[Len(x)] = 0 THEN Norm(SubSeq(x, 1, Len(x) - 1)) ELSE x

RECURSIVE FromInt(_)
FromInt(n) == IF n = 0 THEN <<>> ELSE <<n % 10000>> \o FromInt(n \div 10000)

RECURSIVE MulCarry(_, _, _)
MulCarry(x, c, carry) ==
    IF x = <<>> THEN FromInt(carry)
    ELSE With(x[1] * c + carry,
              LAMBDA t : <<t % 10000>> \o MulCarry(Tail(x), c, t \div 10000))

\* x * c, for 0 <= c <= 214748
MulSmall(x, c) ==
    With(x, LAMBDA v : With(MulCarry(v, c, 0), LAMBDA p : Norm(p)))

RECURSIVE DivRem(_, _)
DivRem(x, c) ==
    IF x = <<>> THEN [q |-> <<>>, r |-> 0]
    ELSE With(DivRem(Tail(x), c),
              LAMBDA hi : [q |-> <<(hi.r * 10000 + x[1]) \div c>> \o hi.q,
                           r |-> (hi.r * 10000 + x[1]) % c])

\* quotient and remainder of x by c, for 0 < c <= 214748
DivSmall(x, c) ==
    With(x, LAMBDA v : With(DivRem(v, c),
                            LAMBDA d : [q |-> Norm(d.q), r |-> d.r]))

RECURSIVE AddCarry(_, _, _)
AddCarry(x, y, carry) ==
    IF x = <<>> /\ y = <<>> THEN FromInt(carry)
    ELSE With(<<(IF x = <<>> THEN 0 ELSE x[1])
                  + (IF y = <<>> THEN 0 ELSE y[1]) + carry,
                IF x = <<>> THEN <<>> ELSE Tail(x),
                IF y = <<>> THEN <<>> ELSE Tail(y)>>,
              LAMBDA t : <<t[1] % 10000>> \o AddCarry(t[2], t[3], t[1] \div 10000))

BigAdd(x, y) ==
    With(<<x, y>>, LAMBDA v : With(AddCarry(v[1], v[2], 0), LAMBDA s : Norm(s)))

RECURSIVE SubBorrow(_, _, _)
SubBorrow(x, y, borrow) ==
    IF x = <<>> THEN <<>>
    ELSE With(<<x[1] - (IF y = <<>> THEN 0 ELSE y[1]) - borrow,
                Tail(x),
                IF y = <<>> THEN <<>> ELSE Tail(y)>>,
              LAMBDA t : <<IF t[1] < 0 THEN t[1] + 10000 ELSE t[1]>>
                         \o SubBorrow(t[2], t[3], IF t[1] < 0 THEN 1 ELSE 0))

\* x - y, for x >= y
BigSub(x, y) ==
    With(<<x, y>>, LAMBDA v : With(SubBorrow(v[1], v[2], 0), LAMBDA s : Norm(s)))

RECURSIVE CmpFrom(_, _, _)
CmpFrom(x, y, i) ==
    IF i = 0 THEN 0
    ELSE IF x[i] < y[i] THEN -1
    ELSE IF x[i] > y[i] THEN 1
    ELSE CmpFrom(x, y, i - 1)

\* -1, 0, 1 as x is below, equal to, above y
BigCmp(x, y) ==
    With(<<x, y>>,
         LAMBDA v : IF Len(v[1]) < Len(v[2]) THEN -1
                    ELSE IF Len(v[1]) > Len(v[2]) THEN 1
                    ELSE CmpFrom(v[1], v[2], Len(v[1])))

RECURSIVE MulDigits(_, _)
MulDigits(x, y) ==
    IF y = <<>> THEN <<>>
    ELSE With(MulDigits(x, Tail(y)),
              LAMBDA hi : BigAdd(MulSmall(x, y[1]),
                                 IF hi = <<>> THEN <<>> ELSE <<0>> \o hi))

\* x * y
BigMul(x, y) == With(<<x, y>>, LAMBDA v : MulDigits(v[1], v[2]))

RECURSIVE MulPow2(_, _)
MulPow2(x, e) ==
    IF e >= 13 THEN MulPow2(MulSmall(x, 2^13), e - 13) ELSE MulSmall(x, 2^e)

RECURSIVE MulPow5(_, _)
MulPow5(x, e) ==
    IF e >= 5 THEN MulPow5(MulSmall(x, 5^5), e - 5) ELSE MulSmall(x, 5^e)

MulPow10(x, e) ==
    With(x, LAMBDA v : IF v = <<>> THEN <<>>
                       ELSE MulSmall([i \in 1..(e \div 4) |-> 0] \o v, 10^(e % 4)))

\* the number of decimal digits of x
NDigits(x) ==
    With(x, LAMBDA v :
        IF v = <<>> THEN 0
        ELSE 4 * (Len(v) - 1)
             + (IF v[Len(v)] < 10 THEN 1 ELSE IF v[Len(v)] < 100 THEN 2
                ELSE IF v[Len(v)] < 1000 THEN 3 ELSE 4))

\* floor(x / 10^e), and whether anything was cut off
FloorPow10(x, e) ==
    With(x, LAMBDA v :
        With(DivSmall(IF e \div 4 >= Len(v) THEN <<>>
                      ELSE SubSeq(v, e \div 4 + 1, Len(v)), 10^(e % 4)),
             LAMBDA d : [q |-> d.q,
                         sticky |-> d.r # 0
                                    \/ \E i \in 1..Len(v) : i <= e \div 4 /\ v[i] # 0]))

\* floor(x / 2^e), and whether anything was cut off
RECURSIVE FloorPow2(_, _, _)
FloorPow2(x, e, sticky) ==
    IF e = 0 THEN [q |-> x, sticky |-> sticky]
    ELSE With(DivSmall(x, 2^(IF e > 13 THEN 13 ELSE e)),
              LAMBDA d : FloorPow2(d.q, IF e > 13 THEN e - 13 ELSE 0,
                                   sticky \/ d.r # 0))

\* f = floor(x / base^(e-1)) with its sticky flag: x / base^e rounded to the
\* nearest integer, a half going to the even one
HalfEven(f, base) ==
    With(DivSmall(f.q, base),
         LAMBDA d : IF \/ 2 * d.r > base
                       \/ /\ 2 * d.r = base
                          /\ (f.sticky \/ (d.q # <<>> /\ d.q[1] % 2 = 1))
                    THEN BigAdd(d.q, <<1>>)
                    ELSE d.q)

DivPow10(x, e) ==
    IF e = 0 THEN x
    ELSE With(FloorPow10(x, e - 1), LAMBDA f : HalfEven(f, 10))

DivPow2(x, e) ==
    IF e = 0 THEN x
    ELSE With(FloorPow2(x, e - 1, FALSE), LAMBDA f : HalfEven(f, 2))

\* the result of a Decimal operation in the default context: 28 significant
\* digits, ROUND_HALF_EVEN
Round28(c) ==
    With(<<c, NDigits(c.coef)>>, LAMBDA v :
        IF v[2] <= 28 THEN v[1]
        ELSE [coef |-> DivPow10(v[1].coef, v[2] - 28),
              exp  |-> v[1].exp - (v[2] - 28)])

\* the coefficients of x and y at their larger exponent, and that exponent
Aligned(x, y) ==
    With(<<x, y, IF x.exp > y.exp THEN x.exp ELSE y.exp>>, LAMBDA v :
        <<MulPow10(v[1].coef, v[3] - v[1].exp),
          MulPow10(v[2].coef, v[3] - v[2].exp), v[3]>>)

\* -1, 0, 1 as the Decimal x is below, equal to, above the Decimal y
DecimalCmp(x, y) == With(Aligned(x, y), LAMBDA v : BigCmp(v[1], v[2]))

\* x + y
DecimalAdd(x, y) ==
    With(Aligned(x, y),
         LAMBDA v : Round28([coef |-> BigAdd(v[1], v[2]), exp |-> v[3]]))

\* x - y, for x >= y
DecimalSub(x, y) ==
    With(Aligned(x, y),
         LAMBDA v : Round28([coef |-> BigSub(v[1], v[2]), exp |-> v[3]]))

\* x * y
DecimalMul(x, y) ==
    With(<<x, y>>, LAMBDA v : Round28([coef |-> BigMul(v[1].coef, v[2].coef),
                                       exp  |-> v[1].exp + v[2].exp]))

\* x / Decimal('2.0'): the quotient is x * 5 / 10
DecimalHalf(x) ==
    With(x, LAMBDA v : Round28([coef |-> MulSmall(v.coef, 5), exp |-> v.exp + 1]))

\* Decimal(round(x, 8)): x at 8 decimal places, a half going to the even digit
Round8(x) ==
    With(x, LAMBDA v :
        [coef |-> IF v.exp >= 8 THEN DivPow10(v.coef, v.exp - 8)
                  ELSE MulPow10(v.coef, 8 - v.exp),
         exp  |-> 8])

RECURSIVE BinadeBelow(_, _, _)
BinadeBelow(c, x, j) ==
    With(x, LAMBDA v : IF BigCmp(c, v) >= 0
                       THEN BinadeBelow(c, MulSmall(v, 2), j + 1)
                       ELSE j)

RECURSIVE BinadeAbove(_, _, _)
BinadeAbove(x, ten, k) ==
    With(x, LAMBDA v : IF BigCmp(v, ten) < 0
                       THEN BinadeAbove(MulSmall(v, 2), ten, k + 1)
                       ELSE k)

\* the binade of the Decimal c > 0: the k with 2^-k <= c < 2^-(k-1), negative
\* for c >= 2.  Below 1 a number of L digits and exponent e is under
\* 10^(L-e) < 2^(3*(L-e)), which is where the search starts.
DecimalBinade(c) ==
    With(<<c, MulPow10(<<1>>, c.exp), c.exp - NDigits(c.coef)>>, LAMBDA v :
        IF BigCmp(v[1].coef, v[2]) >= 0
        THEN -BinadeBelow(v[1].coef, MulSmall(v[2], 2), 0)
        ELSE With(IF v[3] > 0 THEN 3 * v[3] ELSE 0,
                  LAMBDA k0 : BinadeAbove(MulPow2(v[1].coef, k0), v[2], k0)))

\* float(c) for a Decimal c, and float(text) for the decimal c a text spells
\* (c < 2^53, as every rate and amount is): the multiple of 2^-(k+52)
\* nearest to c, a half going to the even mantissa
FloatOf(c) ==
    IF c.coef = <<>> THEN [m |-> <<>>, k |-> 0]
    ELSE With(<<c, DecimalBinade(c)>>, LAMBDA v :
           [m |-> DivPow10(MulPow2(v[1].coef, v[2] + 52), v[1].exp), k |-> v[2]])

\* Decimal(f) for a float f: its exact value, m * 5^(k+52) / 10^(k+52)
DecimalFromFloat(f) ==
    With(f, LAMBDA v : [coef |-> MulPow5(v.m, v.k + 52), exp |-> v.k + 52])

\* "%0.8f" % f for a float f, in satoshis: the exact value of f rounded to 8
\* places, a half going to the even digit
Format8(f) == With(f, LAMBDA v : DivPow2(MulPow10(v.m, 8), v.k + 52))

(***************************************************************************)
(* The script's constants and expressions.                                 *)
(***************************************************************************)
\* wait_time = 60
WaitTime == 60
\* Decimal('0.00000001')
SpreadThreshold == [coef |-> <<1>>, exp |-> 8]
\* Decimal('0.0005')
MinOrderValue == [coef |-> <<5>>, exp |-> 4]
\* Decimal('.9975')
Fee == [coef |-> <<9975>>, exp |-> 4]

\* Decimal(order_book[..][0]["Rate"]): of a float its binary value, of an
\* exact rate the satoshis quoted
DecimalOf(entry) ==
    IF entry.as_float
    THEN DecimalFromFloat(FloatOf([coef |-> entry.Rate, exp |-> 8]))
    ELSE [coef |-> entry.Rate, exp |-> 8]

\* Decimal(amount): amount is float(text), the text spelling amt tenths
DecimalOfAmount(amt) == DecimalFromFloat(FloatOf([coef |-> FromInt(amt), exp |-> 1]))

\* Decimal(round((buy_rate + sell_rate) / Decimal('2.0'), 8))
MidRate(bid, ask) == Round8(DecimalHalf(DecimalAdd(bid, ask)))

\* sell_rate - buy_rate <= Decimal('0.00000001'); a negative difference is
\* below the threshold
SpreadTooTight(bid, ask) ==
    \/ DecimalCmp(ask, bid) < 0
    \/ DecimalCmp(DecimalSub(ask, bid), SpreadThreshold) <= 0

\* lines 141-142: market_rate after the sell-side adjustment
SellRate(bid, ask, mid) == IF SpreadTooTight(bid, ask) THEN bid ELSE mid

\* variant: the side is not looked at, every run takes the sell branch
IsSellAlways(side) == TRUE

\* order_side == 'sell'
IsSell(side) == side = <<"s","e","l","l">>

\* market_rate * Decimal(amount) < Decimal('0.0005')
BelowMinOrderValue(rate, amt) ==
    DecimalCmp(DecimalMul(rate, DecimalOfAmount(amt)), MinOrderValue) < 0

\* variant: the success flag is not looked at
OrderRefusedNever(r) == FALSE

\* not resp.get('success')
OrderRefused(r) == ~r.success

\* variant: the loop condition inverted
StillOpenInverted(closed) == closed

\* the loop condition: not order_resp['result']['Closed']
StillOpen(closed) == ~closed

\* variant: the comparison written as greater or equal
WarnExceededInclusive(total, warn) == total >= warn

\* variant: the threshold is taken one interval too late
WarnExceededLate(total, warn) == total > warn + WaitTime

\* total_wait_time > warn_after
WarnExceeded(total, warn) == total > warn

\* market_rate * Decimal(amount) * Decimal('.9975')
Proceeds(rate, amt) == DecimalMul(DecimalMul(rate, DecimalOfAmount(amt)), Fee)

\* "%0.8f" % market_rate, in satoshis: the Decimal goes through float()
FormatRate(rate) == Format8(FloatOf(rate))

\* "%0.8f" % (market_rate * Decimal(amount) * Decimal('.9975')), in satoshis
FormatProceeds(total) == Format8(FloatOf(total))

\* raise Exception(...) or an exception of a call: nothing catches it
Raise(kind) ==
    /\ pc' = "raised"
    /\ error' = kind

(***************************************************************************)
(* Input domains.                                                          *)
(***************************************************************************)
SideArgs == { <<"B","U","Y">>, <<"b","u","y">>, <<"S","e","l","l">>,
              <<"S","A","L","E">> }
Currencies == {"XLM", "BTC"}
\* in tenths of a coin: none, half a coin, one coin, and around the 500 coins
\* that are worth the minimum order value at the rates below
Amounts == { 0, 5, 10 } \cup { 4999 + k : k \in 0..MaxAmount }
\* in satoshis, around 0.00000100
Rates == { FromInt(99 + k) : k \in 0..MaxRateIdx }
\* 32.55412402, the rate of the sample response at lines 108-127, in satoshis
SampleRate == <<2402, 5541, 32>>
\* best bid and best ask: every pair of the rates (the ask may be below the
\* bid), two books with 2^-11 = 0.00048828125 between bid and ask, and the
\* sample response
BookRates ==
    (Rates \X Rates)
    \cup { <<FromInt(48827), FromInt(48830)>>, <<FromInt(48828), FromInt(48829)>>,
           <<SampleRate, SampleRate>> }
\* a Rate as the client delivers it: the satoshis quoted, as a float or exactly
Entries(rates) == [Rate : rates, as_float : BOOLEAN]
\* order_book: buy and sell each hold the best entry, or nothing
OrderBooks ==
    { [buy |-> <<[Rate |-> p[1], as_float |-> bf]>>,
       sell |-> <<[Rate |-> p[2], as_float |-> af]>>] :
         p \in BookRates, bf \in BOOLEAN, af \in BOOLEAN }
    \cup { [buy |-> <<b>>, sell |-> <<>>] : b \in Entries(Rates) }
    \cup { [buy |-> <<>>, sell |-> s] :
             s \in {<<>>} \cup { <<a>> : a \in Entries(Rates) } }
\* just below and exactly at each whole number of poll intervals
WarnAfters == { WaitTime * k + d : k \in 0..MaxWarnIntervals, d \in {-1, 0} }
MarketEntries == [MarketCurrency : Currencies, BaseCurrency : Currencies,
                  MinTradeSize : 0..MaxMinTradeSize]
MarketLists == UNION { [1..n -> MarketEntries] : n \in 0..MaxMarkets }
\* sell_limit responses: success flag, and result.uuid present or absent
SellLimitResponses == { [success |-> TRUE,  uuid |-> <<"uuid">>],
                        [success |-> TRUE,  uuid |-> <<>>],
                        [success |-> FALSE, uuid |-> <<>>] }

Terminated == pc \in {"exited", "raised"}

(***************************************************************************)
(* The state after argument parsing by argparse, before line 49.           *)
(***************************************************************************)
Init ==
    /\ pc = "parse_args"
    /\ argv_side \in SideArgs
    /\ amount \in Amounts
    /\ market_currency = "XLM"
    /\ base_currency = "BTC"
    /\ warn_after \in WarnAfters
    /\ order_side = <<>>
    /\ min_trade_size = <<>>
    /\ order_book = <<>>
    /\ buy_rate = <<>>
    /\ sell_rate = <<>>
    /\ market_rate = <<>>
    /\ placed = <<>>
    /\ resp = <<>>
    /\ order_uuid = <<>>
    /\ order_closed = <<>>
    /\ statuses = <<>>
    /\ total_wait_time = 0
    /\ calls = <<>>
    /\ published = <<>>
    /\ error = ""

\* lines 49-82: lower-case the side, reject anything but buy / sell, read the
\* settings file (a missing section or key raises), build the two clients
ParseArgs ==
    /\ pc = "parse_args"
    /\ order_side' = Lower(argv_side)
    /\ IF InvalidSide(Lower(argv_side))
       THEN Raise("InvalidSide")
       ELSE \E setup_ok \in BOOLEAN :
              IF setup_ok
              THEN pc' = "get_markets" /\ error' = error
              ELSE Raise("ConfigError")
    /\ UNCHANGED <<argv_side, amount, market_currency, base_currency, warn_after,
                   min_trade_size, order_book, buy_rate, sell_rate, market_rate,
                   placed, resp, order_uuid, order_closed, statuses,
                   total_wait_time, calls, published>>

\* an exchange call that does not return: the exception is not caught
ExchangeCallRaises(op) ==
    /\ calls' = Append(calls, op)
    /\ Raise("ExchangeError")

\* lines 83-97: fetch the market list, look the pair up, check the amount
GetMarkets ==
    /\ pc = "get_markets"
    /\ \/ /\ ExchangeCallRaises("get_markets")
          /\ UNCHANGED <<min_trade_size>>
       \/ \E markets \in MarketLists :
            LET found == FindMinTradeSize(markets, market_currency, base_currency)
            IN  /\ calls' = Append(calls, "get_markets")
                /\ min_trade_size' = found
                /\ IF NotFound(found) THEN Raise("MarketNotFound")
                   ELSE IF BelowMinTradeSize(amount, found) THEN Raise("AmountBelowMinimum")
                   ELSE pc' = "get_balances" /\ error' = error
    /\ UNCHANGED <<argv_side, order_side, amount, market_currency, base_currency,
                   warn_after, order_book, buy_rate, sell_rate, market_rate, placed, resp,
                   order_uuid, order_closed, statuses, total_wait_time, published>>

\* lines 100-104: fetch the balances for the report
GetBalances ==
    /\ pc = "get_balances"
    /\ \/ ExchangeCallRaises("get_balances")
       \/ /\ calls' = Append(calls, "get_balances")
          /\ pc' = "get_orderbook"
          /\ error' = error
    /\ UNCHANGED <<argv_side, order_side, amount, market_currency, base_currency,
                   warn_after, min_trade_size, order_book, buy_rate, sell_rate,
                   market_rate, placed, resp, order_uuid, order_closed, statuses,
                   total_wait_time, published>>

\* lines 129-147 and 161-162: fetch the order book, read the best bid and the
\* best ask (an empty side raises IndexError), derive the price, branch on the
\* side, check the order's value
GetOrderbook ==
    /\ pc = "get_orderbook"
    /\ \/ /\ ExchangeCallRaises("get_orderbook")
          /\ UNCHANGED <<order_book, buy_rate, sell_rate, market_rate>>
       \/ \E book \in OrderBooks :
            /\ calls' = Append(calls, "get_orderbook")
            /\ order_book' = <<book>>
            /\ IF book.buy = <<>>
               THEN \* order_book["buy"][0] raises
                    /\ Raise("EmptyOrderBook")
                    /\ UNCHANGED <<buy_rate, sell_rate, market_rate>>
               ELSE IF book.sell = <<>>
               THEN \* order_book["sell"][0] raises
                    /\ buy_rate' = <<DecimalOf(book.buy[1])>>
                    /\ Raise("EmptyOrderBook")
                    /\ UNCHANGED <<sell_rate, market_rate>>
               ELSE \E bid \in {DecimalOf(book.buy[1])} :
                    \E ask \in {DecimalOf(book.sell[1])} :
                    \E mid \in {MidRate(bid, ask)} :
                      /\ buy_rate' = <<bid>>
                      /\ sell_rate' = <<ask>>
                      /\ IF IsSell(order_side)
                         THEN \E rate \in {SellRate(bid, ask, mid)} :
                                /\ market_rate' = <<rate>>
                                /\ IF BelowMinOrderValue(rate, amount)
                                   THEN Raise("OrderTooSmall")
                                   ELSE pc' = "sell_limit" /\ error' = error
                         ELSE /\ market_rate' = <<mid>>
                              /\ Raise("NotImplemented")
    /\ UNCHANGED <<argv_side, order_side, amount, market_currency, base_currency,
                   warn_after, min_trade_size, placed, resp, order_uuid,
                   order_closed, statuses, total_wait_time, published>>

\* lines 150-159: place the limit order, check the acknowledgement
SellLimit ==
    /\ pc = "sell_limit"
    /\ placed' = Append(placed, [quantity |-> amount, rate |-> market_rate[1]])
    /\ \/ /\ ExchangeCallRaises("sell_limit")
          /\ UNCHANGED <<resp, order_uuid>>
       \/ \E r \in SellLimitResponses :
            /\ calls' = Append(calls, "sell_limit")
            /\ resp' = <<r>>
            /\ IF OrderRefused(r)
               THEN Raise("OrderRejected") /\ UNCHANGED order_uuid
               ELSE IF r.uuid = <<>>
               THEN Raise("MalformedResponse") /\ UNCHANGED order_uuid
               ELSE /\ order_uuid' = r.uuid
                    /\ pc' = "get_order"
                    /\ error' = error
    /\ UNCHANGED <<argv_side, order_side, amount, market_currency, base_currency,
                   warn_after, min_trade_size, order_book, buy_rate, sell_rate,
                   market_rate, order_closed, statuses, total_wait_time, published>>

\* lines 167-169: the first status fetch
GetOrder ==
    /\ pc = "get_order"
    /\ \/ /\ ExchangeCallRaises("get_order")
          /\ UNCHANGED <<order_closed, statuses>>
       \/ \E closed \in BOOLEAN :
            /\ calls' = Append(calls, "get_order")
            /\ order_closed' = <<closed>>
            /\ statuses' = Append(statuses, closed)
            /\ pc' = "poll"
            /\ error' = error
    /\ total_wait_time' = 0
    /\ UNCHANGED <<argv_side, order_side, amount, market_currency, base_currency,
                   warn_after, min_trade_size, order_book, buy_rate, sell_rate,
                   market_rate, placed, resp, order_uuid, published>>

\* sns.publish(...): the notification is published, or the call raises and the
\* exception is not caught
Publish(kind, shown, total) ==
    /\ calls' = Append(calls, "publish")
    /\ \/ /\ Raise("NotifyError")
          /\ UNCHANGED published
       \/ /\ published' = Append(published,
                 [kind |-> kind, market_rate |-> shown, proceeds |-> total])
          /\ pc' = "exited"
          /\ error' = error

\* lines 171-178: still open and the threshold is exceeded: alert and exit()
PollTimeout ==
    /\ pc = "poll"
    /\ StillOpen(order_closed[1])
    /\ WarnExceeded(total_wait_time, warn_after)
    /\ Publish("timeout", FormatRate(market_rate[1]), <<>>)
    /\ UNCHANGED <<argv_side, order_side, amount, market_currency, base_currency,
                   warn_after, min_trade_size, order_book, buy_rate, sell_rate,
                   market_rate, placed, resp, order_uuid, order_closed, statuses,
                   total_wait_time>>

\* lines 171-172 and 180-185: still open, threshold not exceeded: print the
\* progress line and enter time.sleep(wait_time)
PollSleep ==
    /\ pc = "poll"
    /\ StillOpen(order_closed[1])
    /\ ~WarnExceeded(total_wait_time, warn_after)
    /\ calls' = Append(calls, "sleep")
    /\ pc' = "sleeping"
    /\ UNCHANGED <<argv_side, order_side, amount, market_currency, base_currency,
                   warn_after, min_trade_size, order_book, buy_rate, sell_rate,
                   market_rate, placed, resp, order_uuid, order_closed, statuses,
                   total_wait_time, published, error>>

\* lines 185-186: the sleep returns, total_wait_time += wait_time
PollWake ==
    /\ pc = "sleeping"
    /\ total_wait_time' = total_wait_time + WaitTime
    /\ pc' = "refetch"
    /\ UNCHANGED <<argv_side, order_side, amount, market_currency, base_currency,
                   warn_after, min_trade_size, order_book, buy_rate, sell_rate,
                   market_rate, placed, resp, order_uuid, order_closed, statuses,
                   calls, published, error>>

\* line 187: fetch the status again, back to the loop test
PollGetOrder ==
    /\ pc = "refetch"
    /\ \/ /\ ExchangeCallRaises("get_order")
          /\ UNCHANGED <<order_closed, statuses>>
       \/ \E closed \in BOOLEAN :
            /\ calls' = Append(calls, "get_order")
            /\ order_closed' = <<closed>>
            /\ statuses' = Append(statuses, closed)
            /\ pc' = "poll"
            /\ error' = error
    /\ UNCHANGED <<argv_side, order_side, amount, market_currency, base_currency,
                   warn_after, min_trade_size, order_book, buy_rate, sell_rate,
                   market_rate, placed, resp, order_uuid, total_wait_time,
                   published>>

\* lines 171 and 189-202: closed: build the report, publish it, fall off the end
Report ==
    /\ pc = "poll"
    /\ ~StillOpen(order_closed[1])
    /\ Publish("success", FormatRate(market_rate[1]),
               <<FormatProceeds(Proceeds(market_rate[1], amount))>>)
    /\ UNCHANGED <<argv_side, order_side, amount, market_currency, base_currency,
                   warn_after, min_trade_size, order_book, buy_rate, sell_rate,
                   market_rate, placed, resp, order_uuid, order_closed, statuses,
                   total_wait_time>>

Next ==
    \/ ParseArgs
    \/ GetMarkets
    \/ GetBalances
    \/ GetOrderbook
    \/ SellLimit
    \/ GetOrder
    \/ PollTimeout
    \/ PollSleep
    \/ PollWake
    \/ PollGetOrder
    \/ Report

Spec == Init /\ [][Next]_vars

\* the script is one thread that runs to its end: every step that can be taken is
FairSpec == Spec /\ WF_vars(Next)

(***************************************************************************)
(* Vocabulary of the properties.                                           *)
(***************************************************************************)
Count(op) == Cardinality({ i \in DOMAIN calls : calls[i] = op })
Made(op) == \E i \in DOMAIN calls : calls[i] = op
BuyRun == argv_side \in { <<"B","U","Y">>, <<"b","u","y">> }
SellRun == argv_side = <<"S","e","l","l">>
OrderPlaced == resp # <<>> /\ resp[1].success /\ resp[1].uuid # <<>>
\* every status check made has returned, and reported the order as not closed
AllChecksOpen ==
    /\ statuses # <<>>
    /\ Len(statuses) = Count("get_order")
    /\ \A i \in DOMAIN statuses : ~statuses[i]
FirstCheckClosed == statuses # <<>> /\ statuses[1]
Timeouts == Cardinality({ i \in DOMAIN published : published[i].kind = "timeout" })
Successes == Cardinality({ i \in DOMAIN published : published[i].kind = "success" })
\* get_markets returned its list (min_trade_size is None when no entry matched)
MarketsFetched == Made("get_markets") /\ ~(Len(calls) = 1 /\ error = "ExchangeError")
\* the notification call was the last thing the run did, and it raised
NotifyFailed ==
    /\ pc = "raised" /\ error = "NotifyError"
    /\ published = <<>>
    /\ Count("publish") = 1 /\ calls[Len(calls)] = "publish"
\* the best bid and the best ask as the exchange quoted them, in satoshis
QuotedBid == order_book[1].buy[1].Rate
QuotedAsk == order_book[1].sell[1].Rate
\* the Decimal of n satoshis
Satoshis(n) == [coef |-> n, exp |-> 8]

(***************************************************************************)
(* C1, as stated.  In a run where the order was placed and every status    *)
(* check reports the order as not closed: once the cumulative wait exceeds *)
(* warn_after the bot publishes exactly one timeout notification and no    *)
(* success notification, and exits normally, without an error.             *)
(***************************************************************************)
C1_Overdue == pc = "poll" /\ OrderPlaced /\ AllChecksOpen /\ total_wait_time > warn_after
C1_TimedOut ==
    /\ pc = "exited" /\ error = ""
    /\ Timeouts = 1 /\ Successes = 0 /\ Len(published) = 1
    /\ total_wait_time > warn_after
C1_TimeoutAlways ==
    OrderPlaced /\ AllChecksOpen /\ Terminated => C1_TimedOut

(***************************************************************************)
(* C1, amended.  In a run where the order was placed and every status      *)
(* check reports the order as not closed: once the cumulative wait exceeds *)
(* warn_after the bot makes exactly one notification call, for the timeout *)
(* notification.  When the call returns, exactly one timeout notification  *)
(* and no success notification is published and the run exits normally;    *)
(* when the call raises, nothing is published and the run ends with that   *)
(* error.                                                                  *)
(***************************************************************************)
C1_TimeoutOnce ==
    /\ [](OrderPlaced /\ AllChecksOpen =>
            /\ Successes = 0
            /\ pc \in {"poll", "sleeping", "refetch", "exited", "raised"}
            /\ pc \in {"poll", "sleeping", "refetch"} =>
                 published = <<>> /\ error = "" /\ ~Made("publish")
            /\ pc = "exited" => C1_TimedOut /\ Count("publish") = 1
            /\ pc = "raised" => NotifyFailed /\ total_wait_time > warn_after)
    /\ (C1_Overdue ~> (C1_TimedOut \/ NotifyFailed))
C1_Witness ==
    /\ C1_TimedOut /\ OrderPlaced /\ AllChecksOpen
    /\ Len(statuses) >= 2

(***************************************************************************)
(* C2, as stated.  In a run whose first status check reports Closed, the   *)
(* bot does not sleep, publishes exactly one success notification whose    *)
(* report contains the computed market rate and the proceeds               *)
(* market_rate * amount * 0.9975 (the literal values), publishes no        *)
(* timeout notification, and exits normally.  (Stated here for the runs in *)
(* which the notification call returns.)                                   *)
(***************************************************************************)
C2_ReportIsLiteral ==
    FirstCheckClosed /\ pc = "exited" =>
        /\ ~Made("sleep")
        /\ Len(published) = 1 /\ Successes = 1 /\ Timeouts = 0
        /\ error = ""
        /\ DecimalCmp(Satoshis(published[1].market_rate), market_rate[1]) = 0
        /\ published[1].proceeds # <<>>
        /\ DecimalCmp(Satoshis(published[1].proceeds[1]),
                      Proceeds(market_rate[1], amount)) = 0

(***************************************************************************)
(* C3, as stated.  Every run with order_side = buy (any letter case) ends  *)
(* with a NotImplemented error, and makes no order placement, no status    *)
(* poll and no notification.  (Stated here for the runs in which the       *)
(* settings are complete, every exchange call returns, the order book has  *)
(* a bid and an ask, and the amount is positive.)                          *)
(***************************************************************************)
C3_BuyAlwaysNotImplemented ==
    (/\ BuyRun /\ Terminated /\ amount > 0
     /\ error \notin {"ConfigError", "ExchangeError", "EmptyOrderBook"}) =>
        /\ error = "NotImplemented"
        /\ placed = <<>> /\ ~Made("sell_limit") /\ ~Made("get_order")
        /\ published = <<>>

(***************************************************************************)
(* C3, amended.  Every run with order_side = buy (any letter case) makes   *)
(* no order placement, polls no order status and makes no notification     *)
(* call, and it never ends normally.  It ends with NotImplemented exactly  *)
(* when it reaches the side branch, that is when the settings were read,   *)
(* the market validation passed, the balances were fetched and the order   *)
(* book was fetched with a bid and an ask in it; a run stopped earlier     *)
(* ends with that earlier error (ConfigError, MarketNotFound,              *)
(* AmountBelowMinimum, a failed exchange call or an empty order book).     *)
(***************************************************************************)
C3_BuyNeverTrades ==
    BuyRun =>
        /\ placed = <<>> /\ ~Made("sell_limit") /\ ~Made("get_order") /\ ~Made("sleep")
        /\ published = <<>> /\ ~Made("publish")
        /\ pc # "exited"
        /\ market_rate # <<>> => pc = "raised" /\ error = "NotImplemented"
        /\ error = "NotImplemented" =>
             /\ buy_rate # <<>> /\ sell_rate # <<>> /\ market_rate # <<>>
             /\ min_trade_size # <<>> /\ amount >= 10 * min_trade_size[1]
             /\ Count("get_balances") = 1 /\ Count("get_orderbook") = 1
        /\ pc = "raised" =>
             error \in {"ConfigError", "MarketNotFound", "AmountBelowMinimum",
                        "ExchangeError", "EmptyOrderBook", "NotImplemented"}
C3_Witness ==
    /\ argv_side = <<"B","U","Y">>
    /\ pc = "raised" /\ error = "NotImplemented"
    /\ Made("get_orderbook")

(***************************************************************************)
(* C4, as stated.  In a sell run, with marketRate the final rate after the *)
(* spread adjustment (the bid quoted, or the rounded midpoint): if         *)
(* marketRate * amount < 0.0005 the run fails with OrderTooSmall and no    *)
(* order placement is made; if marketRate * amount is exactly 0.0005 or    *)
(* more, the check passes and the order is submitted.                      *)
(***************************************************************************)
\* the final rate in satoshis: the bid as quoted when the bid was taken
C4_Rate ==
    IF market_rate[1] = buy_rate[1] THEN QuotedBid
    ELSE market_rate[1].coef
\* marketRate * amount and 0.0005, in tenths of a satoshi
C4_Notional == BigMul(C4_Rate, FromInt(amount))
C4_Minimum == MulPow10(MinOrderValue.coef, 9 - MinOrderValue.exp)
C4_Below == BigCmp(C4_Notional, C4_Minimum) < 0
C4_MinimumNotional ==
    SellRun /\ market_rate # <<>> =>
        /\ C4_Below =>
             /\ pc = "raised" /\ error = "OrderTooSmall"
             /\ placed = <<>> /\ ~Made("sell_limit")
        /\ ~C4_Below =>
             /\ error # "OrderTooSmall"
             /\ \/ pc = "sell_limit" /\ placed = <<>>
                \/ /\ Len(placed) = 1
                   /\ placed[1].quantity = amount
                   /\ placed[1].rate = market_rate[1]
                   /\ Made("sell_limit")

(***************************************************************************)
(* C5, as stated.  In a sell run, for the best bid and the best ask of the *)
(* order book: if ask - bid > 0.00000001 the derived price is the midpoint *)
(* (bid + ask) / 2 rounded to 8 decimal places (a midpoint halfway between *)
(* two 8-place values may go to either); if ask - bid <= 0.00000001 the    *)
(* derived price is the bid (the script's buy_rate).  That price is the    *)
(* price passed to the limit-order submission.                             *)
(***************************************************************************)
\* ask - bid <= 1 satoshi
C5_Tight == BigCmp(QuotedAsk, BigAdd(QuotedBid, <<1>>)) <= 0
\* market_rate is p whole satoshis with |2p - (bid + ask)| <= 1
C5_RoundedMidpoint ==
    /\ market_rate[1].exp = 8
    /\ BigCmp(MulSmall(market_rate[1].coef, 2),
              BigAdd(BigAdd(QuotedBid, QuotedAsk), <<1>>)) <= 0
    /\ BigCmp(BigAdd(MulSmall(market_rate[1].coef, 2), <<1>>),
              BigAdd(QuotedBid, QuotedAsk)) >= 0
C5_DerivedPrice ==
    SellRun /\ market_rate # <<>> =>
        /\ ~C5_Tight => C5_RoundedMidpoint
        /\ C5_Tight => market_rate[1] = buy_rate[1]
        /\ \A i \in DOMAIN placed : placed[i].rate = market_rate[1]

(***************************************************************************)
(* C6.  For the market entry that matches the requested pair (the first in *)
(* the list, the one the lookup stops at) and the requested amount (> 0):  *)
(* if the amount is strictly below the entry's minimum trade size,         *)
(* validation fails with AmountBelowMinimum and the run stops before any   *)
(* order book fetch or order placement; if it is at or above the minimum   *)
(* trade size, validation passes and the run goes on to the price          *)
(* computation.                                                            *)
(***************************************************************************)
C6_AmountAgainstMinimum ==
    (MarketsFetched /\ min_trade_size # <<>> /\ amount > 0) =>
        /\ amount < 10 * min_trade_size[1] =>
             /\ pc = "raised" /\ error = "AmountBelowMinimum"
             /\ ~Made("get_orderbook") /\ placed = <<>>
        /\ amount >= 10 * min_trade_size[1] =>
             /\ error \notin {"MarketNotFound", "AmountBelowMinimum"}
             /\ pc = "get_balances" \/ Made("get_balances")

(***************************************************************************)
(* C7.  Market validation fails with MarketNotFound exactly when no entry  *)
(* of the returned market list matches both the market currency and the    *)
(* base currency, whatever the minimum trade size of a matching entry.     *)
(***************************************************************************)
C7_NotFoundIffUnlisted ==
    MarketsFetched => (error = "MarketNotFound" <=> min_trade_size = <<>>)

(***************************************************************************)
(* C8.  For warn_after >= 0 and every sequence of order statuses, with     *)
(* every exchange call returning, the fill poller ends in the success path *)
(* or in the timeout path, each of which is one notification call; it      *)
(* makes at most floor(warn_after / 60) + 2 status fetches and at most     *)
(* floor(warn_after / 60) + 1 sleeps of 60 units, and every status fetch   *)
(* after the first comes right after exactly one sleep.                    *)
(***************************************************************************)
C8_Alternation ==
    \A i \in DOMAIN calls :
        /\ calls[i] = "sleep" =>
             /\ i > 1 /\ calls[i - 1] = "get_order"
             /\ i < Len(calls) => calls[i + 1] = "get_order"
             /\ i = Len(calls) => pc \in {"sleeping", "refetch"}
        /\ (calls[i] = "get_order" /\ \E j \in 1..(i - 1) : calls[j] = "get_order")
             => calls[i - 1] = "sleep"
C8_PathTaken ==
    /\ Count("publish") = 1 /\ calls[Len(calls)] = "publish"
    /\ \/ pc = "exited" /\ Len(published) = 1 /\ Successes + Timeouts = 1
       \/ NotifyFailed
C8_PollerBounded ==
    /\ [](warn_after >= 0 =>
            /\ Count("get_order") <= (warn_after \div WaitTime) + 2
            /\ Count("sleep") <= (warn_after \div WaitTime) + 1
            /\ total_wait_time
                 = WaitTime * (Count("sleep") - IF pc = "sleeping" THEN 1 ELSE 0)
            /\ C8_Alternation
            /\ Made("publish") => C8_PathTaken
            /\ pc = "exited" => C8_PathTaken)
    /\ ((pc \in {"poll", "sleeping", "refetch"} /\ warn_after >= 0)
          ~> (C8_PathTaken \/ (pc = "raised" /\ error = "ExchangeError")))
C8_Witness ==
    /\ warn_after >= WaitTime
    /\ pc = "exited" /\ Timeouts = 1
    /\ Count("get_order") = (warn_after \div WaitTime) + 2
    /\ Count("sleep") = (warn_after \div WaitTime) + 1

(***************************************************************************)
(* C9.  The timeout notification is published only from a state where the  *)
(* cumulative wait is strictly greater than warn_after and the status last *)
(* fetched is not closed; at a wait equal to warn_after the poller sleeps  *)
(* and polls again; and whenever the status fetched is Closed the success  *)
(* path is taken (the success notification is the one call made), even     *)
(* when the wait already exceeds warn_after.                               *)
(***************************************************************************)
C9_TimeoutOnlyWhenOverdue ==
    [][ /\ Timeouts' > Timeouts =>
             /\ total_wait_time > warn_after
             /\ order_closed = <<FALSE>>
             /\ Timeouts = 0
        /\ (pc = "poll" /\ order_closed = <<FALSE>> /\ total_wait_time = warn_after) =>
             /\ published' = published
             /\ calls' = Append(calls, "sleep")
             /\ pc' = "sleeping"
        /\ pc = "sleeping" =>
             /\ published' = published /\ calls' = calls
             /\ total_wait_time' = total_wait_time + WaitTime
             /\ pc' = "refetch"
        /\ pc = "refetch" =>
             /\ published' = published
             /\ calls' = Append(calls, "get_order")
             /\ total_wait_time' = total_wait_time
        /\ (pc = "poll" /\ order_closed = <<TRUE>>) =>
             /\ calls' = Append(calls, "publish")
             /\ Timeouts' = 0
             /\ \/ pc' = "exited" /\ Successes' = 1
                \/ pc' = "raised" /\ error' = "NotifyError" /\ published' = published
      ]_vars
C9_Witness ==
    /\ pc = "exited" /\ Successes = 1
    /\ order_closed = <<TRUE>>
    /\ total_wait_time > warn_after
    /\ warn_after >= 0

(***************************************************************************)
(* C10.  A status poll or a notification happens only after exactly one    *)
(* order placement that the exchange acknowledged with success; when the   *)
(* response to the placement has the success flag false the run ends with  *)
(* OrderRejected, with no status poll and no notification; and a run that  *)
(* ends in an error has published no notification.                         *)
(***************************************************************************)
C10_PlacementFirst ==
    /\ (Made("get_order") \/ Made("sleep") \/ Made("publish") \/ published # <<>>) =>
          /\ Count("sell_limit") = 1 /\ Len(placed) = 1
          /\ resp # <<>> /\ resp[1].success
          /\ \E i \in DOMAIN calls :
               /\ calls[i] = "sell_limit"
               /\ \A j \in DOMAIN calls :
                    calls[j] \in {"get_order", "sleep", "publish"} => j > i
    /\ (resp # <<>> /\ ~resp[1].success) =>
          /\ pc = "raised" /\ error = "OrderRejected"
          /\ ~Made("get_order") /\ ~Made("publish") /\ published = <<>>
    /\ (pc = "raised" \/ error # "") => published = <<>>
C10_Witness ==
    /\ resp # <<>> /\ ~resp[1].success
    /\ pc = "raised" /\ error = "OrderRejected"
    /\ Count("sell_limit") = 1

====
